---- MODULE Spec2Model ----
(***************************************************************************)
(* Model of MedianFilter<T, Sum> (src/MedianFilter.hpp): a sliding-window  *)
(* median filter that keeps a ring buffer `data`, the map from sorted rank *)
(* to ring slot `sizeMap` and its inverse `locationMap`.                   *)
(*                                                                         *)
(* T and Sum are modelled as integers.  Sample values are drawn from a     *)
(* small range, so the accumulator never leaves the range of any Sum type  *)
(* at least as wide as T; uint8_t index arithmetic is kept modulo 2^8.     *)
(***************************************************************************)
EXTENDS Integers, Sequences, FiniteSets, Bags, TLC

\* ---------------------------------------------------------------- bounds
MaxSize == 4        \* largest requested window size in Spec
MaxVal == 2         \* samples and seeds range over -1..MaxVal
MaxInserts == 5     \* number of in() calls explored in Spec
ClampInserts == 1   \* number of in() calls explored in SpecClamp
EvenInserts == 5    \* number of in() calls explored in SpecEven
StepInserts == 5    \* number of in() calls explored in SpecStep
CopyInserts == 2    \* number of in() calls explored in SpecCopy
CopyOps == 2        \* number of constructions and assignments explored in SpecCopy

\* ------------------------------------------------------ program constants
MinWindow == 3      \* lower limit of constrain(size, 3, 255)
MaxWindow == 255    \* upper limit of constrain(size, 3, 255)
Byte == 256         \* uint8_t arithmetic is modulo 2^8

Vals == (0 - 1)..MaxVal
Sizes == 1..MaxSize
ClampSizes == {1, 3, 4, 255, 256, 300}
EvenSizes == {4, 6}
EvenVals == 0..4
CopySizes == {3, 4}
CopyVals == {1, 2}
Ids == {1, 2}       \* the two MedianFilter objects of SpecCopy
Addr == 1..6        \* heap blocks: three arrays for each of two objects

VARIABLES
    flt,        \* the MedianFilter object (its data members)
    reqSize,    \* the `size` argument the constructor was called with
    nIn,        \* number of in() calls made so far
    stamp,      \* stamp[k]: value of nIn when ring slot k was last written
    recent,     \* the last medFilterWin elements of seed^N followed by the inputs
    lastOp,     \* the member function called last
    ret,        \* the value that call returned
    lastIn,     \* the value the most recent in() returned
    pc,         \* position inside in(): "idle" when no call is in progress
    idx,        \* the loop variable i of the loop in() is in, else 0
    dataMoved,  \* the local dataMoved of the call in progress
    entry,      \* the object as the call in progress found it, else the object
    nLeft,      \* shifts the SORT LEFT loop of the call in progress has made
    nRight,     \* shifts the SORT RIGHT loop of the call in progress has made
    objs,       \* SpecCopy: the data members of each object, arrays as pointers
    heap,       \* SpecCopy: the blocks obtained from calloc
    nOps        \* SpecCopy: number of constructions and assignments made

locals == <<pc, idx, dataMoved, nLeft, nRight>>

copies == <<objs, heap, nOps>>

vars == <<flt, reqSize, nIn, stamp, recent, lastOp, ret, lastIn, locals, entry, copies>>

\* ------------------------------------------------------------ arithmetic
\* C++ integer division truncates toward zero
TruncDiv(a, b) ==
    IF a >= 0 THEN a \div b ELSE 0 - ((0 - a) \div b)

\* constrain without the upper limit
constrainNoUpper(amt, low, high) ==
    IF amt < low THEN low ELSE amt

\* Arduino constrain(amt, low, high)
constrain(amt, low, high) ==
    IF amt < low THEN low ELSE IF amt > high THEN high ELSE amt

\* uint8_t increment and decrement
Inc8(x) == (x + 1) % Byte
Dec8(x) == (x - 1) % Byte

\* ----------------------------------------------------------- constructor
\* the lower of the two middle ranks of an even window
MidPointLower(win) == (win - 1) \div 2

MidPoint(win) == win \div 2          \* medFilterWin >> 1

\* the seed taken once instead of once per slot
SeedSumNoScale(win, s) == s

SeedSum(win, s) == win * s           \* medFilterWin * ((Sum) seed)

StartCursor(win) == MidPoint(win)    \* oldestDataPoint = medDataPointer

MedianFilter(size, s) ==
    LET win == constrain(size, MinWindow, MaxWindow) IN
    [ medFilterWin    |-> win,
      medDataPointer  |-> MidPoint(win),
      data            |-> [i \in 0..(win - 1) |-> s],
      sizeMap         |-> [i \in 0..(win - 1) |-> i],
      locationMap     |-> [i \in 0..(win - 1) |-> i],
      oldestDataPoint |-> StartCursor(win),
      totalSum        |-> SeedSum(win, s) ]

\* ------------------------------------------------------------------ in()
\* the sum update without the removal of the overwritten value
SumUpdateNoRemove(total, value, old) == total + value

\* totalSum += ((Sum) value) - data[oldestDataPoint]
SumUpdate(total, value, old) == total + value - old

\* data[oldestDataPoint] = value, after the sum update
Store(f, value) ==
    [f EXCEPT !.totalSum = SumUpdate(@, value, f.data[f.oldestDataPoint]),
              !.data[f.oldestDataPoint] = value]

\* LeftCond that also shifts past an equal neighbour
LeftCondOrEqual(v, neighbour) == v <= neighbour

\* data[oldestDataPoint] < data[sizeMap[n]]
LeftCond(v, neighbour) == v < neighbour

\* RightCond with the comparison off by one
RightCondOffByOne(v, neighbour) == v > neighbour + 1

\* data[oldestDataPoint] > data[sizeMap[n]]
RightCond(v, neighbour) == v > neighbour

\* LeftShift without the locationMap[sizeMap[n]]++ of the displaced slot
LeftShiftNoInc(f, i) ==
    LET n == Dec8(i)
        o == f.oldestDataPoint
        s == f.sizeMap[n]
    IN [f EXCEPT !.sizeMap = [f.sizeMap EXCEPT ![i] = s, ![n] = o],
                 !.locationMap = [f.locationMap EXCEPT ![o] = Dec8(@)]]

\* LeftShift without the locationMap[oldestDataPoint]-- of the new value
LeftShiftNoDec(f, i) ==
    LET n == Dec8(i)
        o == f.oldestDataPoint
        s == f.sizeMap[n]
    IN [f EXCEPT !.sizeMap = [f.sizeMap EXCEPT ![i] = s, ![n] = o],
                 !.locationMap = [f.locationMap EXCEPT ![s] = Inc8(@)]]

\* LeftShift with the displaced slot's rank decremented as in the right loop
LeftShiftDecOther(f, i) ==
    LET n == Dec8(i)
        o == f.oldestDataPoint
        s == f.sizeMap[n]
        lm1 == [f.locationMap EXCEPT ![s] = Dec8(@)]
    IN [f EXCEPT !.sizeMap = [f.sizeMap EXCEPT ![i] = s, ![n] = o],
                 !.locationMap = [lm1 EXCEPT ![o] = Dec8(@)]]

\* one shifting iteration of the SORT LEFT loop, at index i
LeftShift(f, i) ==
    LET n == Dec8(i)
        o == f.oldestDataPoint
        s == f.sizeMap[n]
        lm1 == [f.locationMap EXCEPT ![s] = Inc8(@)]
    IN [f EXCEPT !.sizeMap = [f.sizeMap EXCEPT ![i] = s, ![n] = o],
                 !.locationMap = [lm1 EXCEPT ![o] = Dec8(@)]]

\* RightShift with the displaced slot's rank incremented as in the left loop
RightShiftIncOther(f, i) ==
    LET n == i + 1
        o == f.oldestDataPoint
        s == f.sizeMap[n]
        lm1 == [f.locationMap EXCEPT ![s] = Inc8(@)]
    IN [f EXCEPT !.sizeMap = [f.sizeMap EXCEPT ![i] = s, ![n] = o],
                 !.locationMap = [lm1 EXCEPT ![o] = Inc8(@)]]

\* RightShift without the sizeMap[n] = oldestDataPoint of the new value
RightShiftNoSlot(f, i) ==
    LET n == i + 1
        o == f.oldestDataPoint
        s == f.sizeMap[n]
        lm1 == [f.locationMap EXCEPT ![s] = Dec8(@)]
    IN [f EXCEPT !.sizeMap = [f.sizeMap EXCEPT ![i] = s],
                 !.locationMap = [lm1 EXCEPT ![o] = Inc8(@)]]

\* RightShift without the locationMap[oldestDataPoint]++ of the new value
RightShiftNoInc(f, i) ==
    LET n == i + 1
        o == f.oldestDataPoint
        s == f.sizeMap[n]
    IN [f EXCEPT !.sizeMap = [f.sizeMap EXCEPT ![i] = s, ![n] = o],
                 !.locationMap = [f.locationMap EXCEPT ![s] = Dec8(@)]]

\* one shifting iteration of the SORT RIGHT loop, at index i
RightShift(f, i) ==
    LET n == i + 1
        o == f.oldestDataPoint
        s == f.sizeMap[n]
        lm1 == [f.locationMap EXCEPT ![s] = Dec8(@)]
    IN [f EXCEPT !.sizeMap = [f.sizeMap EXCEPT ![i] = s, ![n] = o],
                 !.locationMap = [lm1 EXCEPT ![o] = Inc8(@)]]

\* SortLeft with the loop running while i > 1, never reaching rank 0
RECURSIVE SortLeftStopsAtOne(_, _, _)
SortLeftStopsAtOne(f, i, moved) ==
    IF i > 1 /\ f.data[f.oldestDataPoint] < f.data[f.sizeMap[Dec8(i)]]
    THEN SortLeftStopsAtOne(LeftShift(f, i), Dec8(i), TRUE)
    ELSE [f |-> f, dataMoved |-> moved]

\* for(uint8_t i = locationMap[oldestDataPoint]; i > 0; i--)
RECURSIVE SortLeft(_, _, _)
SortLeft(f, i, moved) ==
    IF i > 0 /\ LeftCond(f.data[f.oldestDataPoint], f.data[f.sizeMap[Dec8(i)]])
    THEN SortLeft(LeftShift(f, i), Dec8(i), TRUE)
    ELSE [f |-> f, dataMoved |-> moved]

\* for(int i = locationMap[oldestDataPoint]; i < rightEdge; i++)
RECURSIVE SortRight(_, _)
SortRight(f, i) ==
    IF i < (f.medFilterWin - 1) % Byte
       /\ RightCond(f.data[f.oldestDataPoint], f.data[f.sizeMap[i + 1]])
    THEN SortRight(RightShift(f, i), i + 1)
    ELSE f

\* the cursor wrapping one slot early
NextCursorEarlyWrap(c, win) ==
    IF Inc8(c) = win - 1 THEN 0 ELSE Inc8(c)

\* oldestDataPoint++; if(oldestDataPoint == medFilterWin) oldestDataPoint = 0;
NextCursor(c, win) ==
    IF Inc8(c) = win THEN 0 ELSE Inc8(c)

\* out(): return data[sizeMap[medDataPointer]]
out(f) == f.data[f.sizeMap[f.medDataPointer]]

in(f, value) ==
    LET o  == f.oldestDataPoint
        f1 == Store(f, value)
        L  == IF f1.locationMap[o] > 0
              THEN SortLeft(f1, f1.locationMap[o], FALSE)
              ELSE [f |-> f1, dataMoved |-> FALSE]
        f2 == IF ~L.dataMoved /\ L.f.locationMap[o] < (f.medFilterWin - 1) % Byte
              THEN SortRight(L.f, L.f.locationMap[o])
              ELSE L.f
    IN [f2 EXCEPT !.oldestDataPoint = NextCursor(@, f.medFilterWin)]

\* the return value read before the new sample has been sorted in
inReturnStale(f, value) ==
    LET g == Store(f, value) IN g.data[g.sizeMap[g.medDataPointer]]

\* the value in() returns: data[sizeMap[medDataPointer]] read after the sort
inReturn(f, value) ==
    LET g == in(f, value) IN g.data[g.sizeMap[g.medDataPointer]]

\* ------------------------------------------------------------- accessors
\* the minimum read from ring slot 0 instead of rank 0
getMinUnsorted(f) == f.data[0]

getMin(f) == f.data[f.sizeMap[0]]

getMax(f) == f.data[f.sizeMap[f.medFilterWin - 1]]

getMean(f) == TruncDiv(f.totalSum, f.medFilterWin)

\* for(i = 0; i < medFilterWin; i++) diffSquareSum += diff * diff, taken over
\* the slots lo..hi; the range is halved so that the evaluation depth stays
\* logarithmic in the window size (integer addition is associative)
RECURSIVE DiffSquareSum(_, _, _, _)
DiffSquareSum(f, mean, lo, hi) ==
    IF lo > hi THEN 0
    ELSE IF lo = hi THEN (f.data[lo] - mean) * (f.data[lo] - mean)
    ELSE LET mid == (lo + hi) \div 2 IN
         DiffSquareSum(f, mean, lo, mid) + DiffSquareSum(f, mean, mid + 1, hi)

\* the square root taken of the sum of squares, not divided by win - 1
RECURSIVE SqrtHalfNoDiv(_, _, _)
SqrtHalfNoDiv(dss, den, r) ==
    IF 2 * (r + 1) * (r + 1) <= 2 * dss + 1
    THEN SqrtHalfNoDiv(dss, den, r + 1)
    ELSE r

\* Sum(sqrt(q + 0.5)) where q = dss / (win - 1.0):
\* the largest r with r*r <= dss/(win-1) + 1/2
RECURSIVE SqrtHalf(_, _, _)
SqrtHalf(dss, den, r) ==
    IF 2 * den * (r + 1) * (r + 1) <= 2 * dss + den
    THEN SqrtHalf(dss, den, r + 1)
    ELSE r

getStdDev(f) ==
    SqrtHalf(DiffSquareSum(f, getMean(f), 0, f.medFilterWin - 1), f.medFilterWin - 1, 0)

\* ---------------------------------------------------------------- states
\* the object right after MedianFilter(size, seed), size and seed drawn from
\* the given sets
InitFilter(sizes, seeds) ==
    /\ reqSize \in sizes
    /\ \E s \in seeds :
        /\ flt = MedianFilter(reqSize, s)
        /\ recent = [k \in 1..flt.medFilterWin |-> s]
        /\ ret = s
        /\ lastIn = s
    /\ nIn = 0
    /\ stamp = [k \in 0..(flt.medFilterWin - 1) |-> 0]
    /\ lastOp = "ctor"
    /\ pc = "idle"
    /\ idx = 0
    /\ dataMoved = FALSE
    /\ entry = flt
    /\ nLeft = 0
    /\ nRight = 0

\* no block allocated, no object of SpecCopy constructed
NoObject ==
    [ live |-> FALSE, medFilterWin |-> 0, medDataPointer |-> 0,
      data |-> 0, sizeMap |-> 0, locationMap |-> 0,
      oldestDataPoint |-> 0, totalSum |-> 0 ]

FreeBlock == [used |-> FALSE, mem |-> <<>>]

InitWith(sizes, seeds) ==
    /\ InitFilter(sizes, seeds)
    /\ objs = [x \in Ids |-> NoObject]
    /\ heap = [a \in Addr |-> FreeBlock]
    /\ nOps = 0

Init == InitWith(Sizes, Vals)

InitClamp == InitWith(ClampSizes, Vals)

InitEven == InitWith(EvenSizes, {0})

\* a call of in(value), from entry to return
InsertUpTo(bound, vals) ==
    /\ pc = "idle"
    /\ nIn < bound
    /\ \E value \in vals :
        /\ flt' = in(flt, value)
        /\ recent' = Append(Tail(recent), value)
        /\ ret' = inReturn(flt, value)
        /\ lastIn' = inReturn(flt, value)
    /\ nIn' = nIn + 1
    /\ stamp' = [stamp EXCEPT ![flt.oldestDataPoint] = nIn + 1]
    /\ lastOp' = "in"
    /\ entry' = flt'
    /\ UNCHANGED <<reqSize, locals>>
    /\ UNCHANGED copies

Insert == InsertUpTo(MaxInserts, Vals)

InsertClamp == InsertUpTo(ClampInserts, Vals)

InsertEven == InsertUpTo(EvenInserts, EvenVals)

\* a call of one of the const member functions
Read(op, value) ==
    /\ pc = "idle"
    /\ lastOp' = op
    /\ ret' = value
    /\ UNCHANGED <<flt, reqSize, nIn, stamp, recent, lastIn, locals, entry>>
    /\ UNCHANGED copies

Peek == Read("out", out(flt))

Min == Read("getMin", getMin(flt))

Max == Read("getMax", getMax(flt))

Mean == Read("getMean", getMean(flt))

StandardDeviation == Read("getStdDev", getStdDev(flt))

Accessors == Peek \/ Min \/ Max \/ Mean \/ StandardDeviation

Next == Insert \/ Peek \/ Min \/ Max \/ Mean \/ StandardDeviation

NextClamp == InsertClamp \/ Peek \/ Min \/ Max \/ Mean \/ StandardDeviation

NextEven == InsertEven \/ Peek \/ Min \/ Max \/ Mean \/ StandardDeviation

Spec == Init /\ [][Next]_vars

SpecClamp == InitClamp /\ [][NextClamp]_vars

SpecEven == InitEven /\ [][NextEven]_vars

\* ------------------------------------------------ in(), statement by statement
\* SpecStep follows successive calls of in() through their statements; the
\* accessors, which cannot run during a call, are left to Spec.
\* lines 142-150: the sum update, the store and the test before SORT LEFT
InBegin ==
    /\ pc = "idle"
    /\ nIn < StepInserts
    /\ \E value \in Vals :
        /\ flt' = Store(flt, value)
        /\ recent' = Append(Tail(recent), value)
    /\ entry' = flt
    /\ nIn' = nIn + 1
    /\ stamp' = [stamp EXCEPT ![flt.oldestDataPoint] = nIn + 1]
    /\ dataMoved' = FALSE
    /\ nLeft' = 0
    /\ nRight' = 0
    /\ IF flt.locationMap[flt.oldestDataPoint] > 0
       THEN pc' = "left" /\ idx' = flt.locationMap[flt.oldestDataPoint]
       ELSE pc' = "checkRight" /\ idx' = 0
    /\ UNCHANGED <<reqSize, lastOp, ret, lastIn>>
    /\ UNCHANGED copies

\* lines 152-165: an iteration of SORT LEFT that shifts
InLeftShift ==
    /\ pc = "left"
    /\ idx > 0
    /\ LeftCond(flt.data[flt.oldestDataPoint], flt.data[flt.sizeMap[Dec8(idx)]])
    /\ flt' = LeftShift(flt, idx)
    /\ dataMoved' = TRUE
    /\ idx' = Dec8(idx)
    /\ nLeft' = nLeft + 1
    /\ UNCHANGED <<reqSize, nIn, stamp, recent, lastOp, ret, lastIn, pc, nRight, entry>>
    /\ UNCHANGED copies

\* lines 152, 166-169: SORT LEFT ends, at rank 0 or at the break
InLeftExit ==
    /\ pc = "left"
    /\ ~(/\ idx > 0
         /\ LeftCond(flt.data[flt.oldestDataPoint], flt.data[flt.sizeMap[Dec8(idx)]]))
    /\ pc' = "checkRight"
    /\ idx' = 0
    /\ UNCHANGED <<flt, reqSize, nIn, stamp, recent, lastOp, ret, lastIn,
                   dataMoved, nLeft, nRight, entry>>
    /\ UNCHANGED copies

\* line 174: the test before SORT RIGHT
InCheckRight ==
    /\ pc = "checkRight"
    /\ IF /\ ~dataMoved
          /\ flt.locationMap[flt.oldestDataPoint] < (flt.medFilterWin - 1) % Byte
       THEN pc' = "right" /\ idx' = flt.locationMap[flt.oldestDataPoint]
       ELSE pc' = "wrap" /\ idx' = 0
    /\ UNCHANGED <<flt, reqSize, nIn, stamp, recent, lastOp, ret, lastIn,
                   dataMoved, nLeft, nRight, entry>>
    /\ UNCHANGED copies

\* lines 176-187: an iteration of SORT RIGHT that shifts
InRightShift ==
    /\ pc = "right"
    /\ idx < (flt.medFilterWin - 1) % Byte
    /\ RightCond(flt.data[flt.oldestDataPoint], flt.data[flt.sizeMap[idx + 1]])
    /\ flt' = RightShift(flt, idx)
    /\ idx' = idx + 1
    /\ nRight' = nRight + 1
    /\ UNCHANGED <<reqSize, nIn, stamp, recent, lastOp, ret, lastIn, pc,
                   dataMoved, nLeft, entry>>
    /\ UNCHANGED copies

\* lines 176, 188-191: SORT RIGHT ends, at the right edge or at the break
InRightExit ==
    /\ pc = "right"
    /\ ~(/\ idx < (flt.medFilterWin - 1) % Byte
         /\ RightCond(flt.data[flt.oldestDataPoint], flt.data[flt.sizeMap[idx + 1]]))
    /\ pc' = "wrap"
    /\ idx' = 0
    /\ UNCHANGED <<flt, reqSize, nIn, stamp, recent, lastOp, ret, lastIn,
                   dataMoved, nLeft, nRight, entry>>
    /\ UNCHANGED copies

\* lines 194-197: the cursor advances and the median is returned
InEnd ==
    /\ pc = "wrap"
    /\ flt' = [flt EXCEPT !.oldestDataPoint = NextCursor(@, flt.medFilterWin)]
    /\ ret' = out(flt')
    /\ lastIn' = out(flt')
    /\ lastOp' = "in"
    /\ entry' = flt'
    /\ pc' = "idle"
    /\ dataMoved' = FALSE
    /\ nLeft' = 0
    /\ nRight' = 0
    /\ UNCHANGED <<reqSize, nIn, stamp, recent, idx>>
    /\ UNCHANGED copies

InSteps ==
    InLeftShift \/ InLeftExit \/ InCheckRight \/ InRightShift \/ InRightExit \/ InEnd

NextStep ==
    \/ InBegin
    \/ InLeftShift
    \/ InLeftExit
    \/ InCheckRight
    \/ InRightShift
    \/ InRightExit
    \/ InEnd

SpecStep == Init /\ [][NextStep]_vars

\* a call of in() runs to completion on the caller's thread
SpecStepFair == SpecStep /\ WF_vars(InSteps)

\* ------------------------------------- construction, copy and move (SpecCopy)
\* A store st = [objs, heap] holds the objects, whose data, sizeMap and
\* locationMap members are pointers (block addresses, 0 for nullptr), and the
\* heap blocks they point to.

\* calloc(n, size): a block of n zeroed elements, at the lowest free address
Calloc(h, n) ==
    LET a == CHOOSE a \in Addr :
                 /\ ~h[a].used
                 /\ \A b \in Addr : ~h[b].used => a <= b
    IN [addr |-> a,
        heap |-> [h EXCEPT ![a] = [used |-> TRUE, mem |-> [i \in 0..(n - 1) |-> 0]]]]

\* free(p); free(nullptr) does nothing
Free(h, p) ==
    IF p = 0 THEN h ELSE [h EXCEPT ![p] = FreeBlock]

\* memcpy(dst, src, n * sizeof(element))
Memcpy(h, dst, src, n) ==
    [h EXCEPT ![dst].mem = [i \in 0..(n - 1) |-> h[src].mem[i]]]

\* the three calloc calls, in the order data, sizeMap, locationMap, for
\* object t with its current medFilterWin
AllocArrays(st, t) ==
    LET n  == st.objs[t].medFilterWin
        c1 == Calloc(st.heap, n)
        c2 == Calloc(c1.heap, n)
        c3 == Calloc(c2.heap, n)
    IN [objs |-> [st.objs EXCEPT ![t].data = c1.addr,
                                 ![t].sizeMap = c2.addr,
                                 ![t].locationMap = c3.addr],
        heap |-> c3.heap]

\* the three memcpy calls from other's arrays, read when the copy is made
CopyArrays(st, t, s) ==
    LET n  == st.objs[t].medFilterWin
        h1 == Memcpy(st.heap, st.objs[t].data, st.objs[s].data, n)
        h2 == Memcpy(h1, st.objs[t].sizeMap, st.objs[s].sizeMap, n)
        h3 == Memcpy(h2, st.objs[t].locationMap, st.objs[s].locationMap, n)
    IN [objs |-> st.objs, heap |-> h3]

\* free(data); free(sizeMap); free(locationMap);
FreeArrays(st, t) ==
    [objs |-> st.objs,
     heap |-> Free(Free(Free(st.heap, st.objs[t].data), st.objs[t].sizeMap),
                   st.objs[t].locationMap)]

\* medFilterWin, medDataPointer, oldestDataPoint and totalSum taken from other
CopyScalars(st, t, s) ==
    [objs |-> [st.objs EXCEPT ![t].live = TRUE,
                              ![t].medFilterWin = st.objs[s].medFilterWin,
                              ![t].medDataPointer = st.objs[s].medDataPointer,
                              ![t].oldestDataPoint = st.objs[s].oldestDataPoint,
                              ![t].totalSum = st.objs[s].totalSum],
     heap |-> st.heap]

\* data = other.data; ... ; other.data = nullptr; ... in that order
TakeArrays(st, t, s) ==
    LET o1 == [st.objs EXCEPT ![t].data = st.objs[s].data,
                              ![t].sizeMap = st.objs[s].sizeMap,
                              ![t].locationMap = st.objs[s].locationMap]
    IN [objs |-> [o1 EXCEPT ![s].data = 0, ![s].sizeMap = 0, ![s].locationMap = 0],
        heap |-> st.heap]

\* MedianFilter(int size, T seed), for object t
ConstructOp(st, t, size, s) ==
    LET f  == MedianFilter(size, s)
        s1 == [objs |-> [st.objs EXCEPT ![t].live = TRUE,
                                        ![t].medFilterWin = f.medFilterWin,
                                        ![t].medDataPointer = f.medDataPointer,
                                        ![t].oldestDataPoint = f.oldestDataPoint,
                                        ![t].totalSum = f.totalSum],
               heap |-> st.heap]
        s2 == AllocArrays(s1, t)
    IN [objs |-> s2.objs,
        heap |-> [s2.heap EXCEPT ![s2.objs[t].data].mem = f.data,
                                 ![s2.objs[t].sizeMap].mem = f.sizeMap,
                                 ![s2.objs[t].locationMap].mem = f.locationMap]]

\* MedianFilter(const MedianFilter &other)
CopyConstructOp(st, t, s) ==
    CopyArrays(AllocArrays(CopyScalars(st, t, s), t), t, s)

\* operator=(const MedianFilter &other) with the arrays shared, not copied
CopyAssignShallow(st, t, s) ==
    LET s1 == FreeArrays(CopyScalars(st, t, s), t)
    IN [objs |-> [s1.objs EXCEPT ![t].data = s1.objs[s].data,
                                 ![t].sizeMap = s1.objs[s].sizeMap,
                                 ![t].locationMap = s1.objs[s].locationMap],
        heap |-> s1.heap]

\* operator=(const MedianFilter &other)
CopyAssignOp(st, t, s) ==
    CopyArrays(AllocArrays(FreeArrays(CopyScalars(st, t, s), t), t), t, s)

\* MedianFilter(MedianFilter &&other)
MoveConstructOp(st, t, s) ==
    TakeArrays(CopyScalars(st, t, s), t, s)

\* operator=(MedianFilter &&other)
MoveAssignOp(st, t, s) ==
    TakeArrays(FreeArrays(CopyScalars(st, t, s), t), t, s)

\* the object exists and its three arrays point to allocated blocks
Usable(st, x) ==
    /\ st.objs[x].live
    /\ \A p \in {st.objs[x].data, st.objs[x].sizeMap, st.objs[x].locationMap} :
          p # 0 /\ st.heap[p].used

\* the object with its arrays read through the pointers
View(st, x) ==
    [ medFilterWin    |-> st.objs[x].medFilterWin,
      medDataPointer  |-> st.objs[x].medDataPointer,
      data            |-> st.heap[st.objs[x].data].mem,
      sizeMap         |-> st.heap[st.objs[x].sizeMap].mem,
      locationMap     |-> st.heap[st.objs[x].locationMap].mem,
      oldestDataPoint |-> st.objs[x].oldestDataPoint,
      totalSum        |-> st.objs[x].totalSum ]

\* sizeMap and locationMap hold ranks and slots of the window, each other's
\* inverse: what the index expressions of in() rely on to stay inside the arrays
WellFormed(f) ==
    LET S == 0..(f.medFilterWin - 1) IN
    /\ f.oldestDataPoint \in S
    /\ \A k \in S : f.sizeMap[k] \in S /\ f.locationMap[k] \in S
    /\ \A k \in S : f.sizeMap[f.locationMap[k]] = k

\* in(value) on object x: the arrays are written through the pointers
InOp(st, x, value) ==
    LET g == in(View(st, x), value)
    IN [objs |-> [st.objs EXCEPT ![x].oldestDataPoint = g.oldestDataPoint,
                                 ![x].totalSum = g.totalSum],
        heap |-> [st.heap EXCEPT ![st.objs[x].data].mem = g.data,
                                 ![st.objs[x].sizeMap].mem = g.sizeMap,
                                 ![st.objs[x].locationMap].mem = g.locationMap]]

Store0 == [objs |-> objs, heap |-> heap]

Becomes(st) == objs' = st.objs /\ heap' = st.heap

single == <<flt, reqSize, stamp, recent, lastIn, locals, entry>>

\* object 1 is constructed; flt keeps the value it is constructed with
InitCopy ==
    /\ InitFilter(CopySizes, CopyVals)
    /\ LET st == ConstructOp([objs |-> [x \in Ids |-> NoObject],
                             heap |-> [a \in Addr |-> FreeBlock]],
                            1, reqSize, flt.data[0])
       IN objs = st.objs /\ heap = st.heap
    /\ nOps = 0

\* MedianFilter b(size, seed);
Construct ==
    /\ lastOp # "fault"
    /\ nOps < CopyOps
    /\ ~objs[2].live
    /\ \E size \in CopySizes, s \in CopyVals : Becomes(ConstructOp(Store0, 2, size, s))
    /\ nOps' = nOps + 1
    /\ lastOp' = "ctor"
    /\ UNCHANGED <<single, nIn, ret>>

\* MedianFilter b(a);
CopyConstruct ==
    /\ lastOp # "fault"
    /\ nOps < CopyOps
    /\ ~objs[2].live
    /\ Usable(Store0, 1)
    /\ Becomes(CopyConstructOp(Store0, 2, 1))
    /\ nOps' = nOps + 1
    /\ lastOp' = "copyCtor"
    /\ UNCHANGED <<single, nIn, ret>>

\* MedianFilter b(std::move(a));
MoveConstruct ==
    /\ lastOp # "fault"
    /\ nOps < CopyOps
    /\ ~objs[2].live
    /\ Becomes(MoveConstructOp(Store0, 2, 1))
    /\ nOps' = nOps + 1
    /\ lastOp' = "moveCtor"
    /\ UNCHANGED <<single, nIn, ret>>

\* t = s;  (t and s may be the same object)
CopyAssign(t, s) ==
    /\ lastOp # "fault"
    /\ nOps < CopyOps
    /\ objs[t].live
    /\ Usable(Store0, s)
    /\ Becomes(CopyAssignOp(Store0, t, s))
    /\ nOps' = nOps + 1
    /\ lastOp' = "copyAssign"
    /\ UNCHANGED <<single, nIn, ret>>

\* t = std::move(s);  (t and s may be the same object)
MoveAssign(t, s) ==
    /\ lastOp # "fault"
    /\ nOps < CopyOps
    /\ objs[t].live
    /\ objs[s].live
    /\ Becomes(MoveAssignOp(Store0, t, s))
    /\ nOps' = nOps + 1
    /\ lastOp' = "moveAssign"
    /\ UNCHANGED <<single, nIn, ret>>

\* x.in(value) on an object whose arrays are allocated and whose maps index
\* inside them
InsertObj(x) ==
    /\ lastOp # "fault"
    /\ nIn < CopyInserts
    /\ Usable(Store0, x)
    /\ WellFormed(View(Store0, x))
    /\ \E value \in CopyVals :
        /\ Becomes(InOp(Store0, x, value))
        /\ ret' = inReturn(View(Store0, x), value)
    /\ nIn' = nIn + 1
    /\ lastOp' = "in"
    /\ UNCHANGED <<single, nOps>>

\* in() on, or a copy from, an object whose arrays are nullptr dereferences a
\* null pointer, and in() on an object whose maps are not permutations (zeroed
\* by a self-assignment) indexes the arrays with entries that wrap below 0 and
\* leave them: the behaviour is undefined and is followed no further
Fault ==
    /\ lastOp # "fault"
    /\ \E x \in Ids :
          /\ objs[x].live
          /\ ~(Usable(Store0, x) /\ WellFormed(View(Store0, x)))
    /\ lastOp' = "fault"
    /\ UNCHANGED <<single, copies, nIn, ret>>

NextCopy ==
    \/ Construct
    \/ CopyConstruct
    \/ MoveConstruct
    \/ \E t, s \in Ids : CopyAssign(t, s)
    \/ \E t, s \in Ids : MoveAssign(t, s)
    \/ \E x \in Ids : InsertObj(x)
    \/ Fault

SpecCopy == InitCopy /\ [][NextCopy]_vars

\* ------------------------------------------------- reference definitions
Slots == 0..(flt.medFilterWin - 1)

\* the j-th smallest (0-based) of the values in the window, by counting
KthSmallest(j) ==
    CHOOSE v \in {flt.data[k] : k \in Slots} :
        /\ Cardinality({k \in Slots : flt.data[k] < v}) <= j
        /\ j < Cardinality({k \in Slots : flt.data[k] <= v})

\* the window's contents as a bag
RECURSIVE BagOfSlots(_)
BagOfSlots(n) ==
    IF n = 0 THEN EmptyBag ELSE BagOfSlots(n - 1) (+) SetToBag({flt.data[n - 1]})

RECURSIVE BagOfSeq(_)
BagOfSeq(q) ==
    IF q = <<>> THEN EmptyBag ELSE BagOfSeq(Tail(q)) (+) SetToBag({Head(q)})

RECURSIVE SumOfSlots(_)
SumOfSlots(n) ==
    IF n = 0 THEN 0 ELSE SumOfSlots(n - 1) + flt.data[n - 1]

Abs(a) == IF a < 0 THEN 0 - a ELSE a

\* a / b rounded toward zero, for b > 0, characterised by its remainder
TruncQuot(a, b) ==
    CHOOSE q \in (0 - Abs(a))..Abs(a) :
        /\ q * a >= 0
        /\ Abs(q * b) <= Abs(a)
        /\ Abs(a) - Abs(q * b) < b

Smallest == CHOOSE v \in {flt.data[k] : k \in Slots} : \A k \in Slots : v <= flt.data[k]

Largest == CHOOSE v \in {flt.data[k] : k \in Slots} : \A k \in Slots : v >= flt.data[k]

\* the ring slot the most recent in() wrote
LastWritten == (flt.oldestDataPoint + flt.medFilterWin - 1) % flt.medFilterWin

RECURSIVE SumOfSquares(_)
SumOfSquares(n) ==
    IF n = 0 THEN 0 ELSE SumOfSquares(n - 1) + flt.data[n - 1] * flt.data[n - 1]

\* sum of the squared differences of the window's values from m
RECURSIVE SquaredDiffs(_, _)
SquaredDiffs(n, m) ==
    IF n = 0 THEN 0
    ELSE SquaredDiffs(n - 1, m) + (flt.data[n - 1] - m) * (flt.data[n - 1] - m)

\* floor(sqrt(num / den) + 1/2): the r with (2r-1)^2 <= 4 num/den < (2r+1)^2
RoundedSqrt(num, den) ==
    CHOOSE r \in 0..(num + 1) :
        /\ r > 0 => (2 * r - 1) * (2 * r - 1) * den <= 4 * num
        /\ 4 * num < (2 * r + 1) * (2 * r + 1) * den

MapsDisturbed == \E k \in Slots : flt.locationMap[k] # k

\* ------------------------------------------------------------ properties
\* C1: after construction and after every in(), locationMap and sizeMap are
\* mutual inverse permutations of 0..N-1: sizeMap[locationMap[k]] = k for
\* every slot k and locationMap[sizeMap[r]] = r for every rank r.
C1_MutualInverse ==
    /\ DOMAIN flt.sizeMap = Slots
    /\ DOMAIN flt.locationMap = Slots
    /\ \A k \in Slots :
        /\ flt.locationMap[k] \in Slots
        /\ flt.sizeMap[k] \in Slots
        /\ flt.sizeMap[flt.locationMap[k]] = k
        /\ flt.locationMap[flt.sizeMap[k]] = k

\* an in() has left the maps different from the straight run
C1_Witness ==
    /\ lastOp = "in"
    /\ MapsDisturbed
    /\ \E k \in Slots : flt.sizeMap[k] # flt.locationMap[k]

\* C2: after construction and after every in(), the values read in rank
\* order are non-decreasing.
C2_SortedByRank ==
    \A r \in 0..(flt.medFilterWin - 2) :
        flt.data[flt.sizeMap[r]] <= flt.data[flt.sizeMap[r + 1]]

\* an in() has put a new minimum at rank 0, below a strictly larger value
C2_Witness ==
    /\ lastOp = "in"
    /\ MapsDisturbed
    /\ flt.data[flt.sizeMap[0]] < flt.data[flt.sizeMap[1]]
    /\ flt.data[flt.sizeMap[1]] < flt.data[flt.sizeMap[flt.medFilterWin - 1]]

\* C3: the value each in() returns is the element at 0-based index
\* floor(N/2) of the window's contents sorted ascending from scratch.
C3_InReturnsMiddle ==
    lastOp = "in" => ret = KthSmallest(flt.medFilterWin \div 2)

\* an in() on an even window whose two middle elements differ, after the ring
\* has wrapped
C3_Witness ==
    /\ lastOp = "in"
    /\ nIn > flt.medFilterWin
    /\ flt.medFilterWin = 4
    /\ KthSmallest(1) # KthSmallest(2)
    /\ ret = KthSmallest(2)

\* C4 as stated: on an even window in() and out() return the lower-middle
\* element, sorted rank N/2 - 1; with window 4 seeded with 0, after in(1),
\* in(2), in(3), in(4) the median is the element at sorted rank 1.
C4_LowerMiddle ==
    (lastOp \in {"in", "out"} /\ flt.medFilterWin % 2 = 0)
        => ret = KthSmallest(flt.medFilterWin \div 2 - 1)

\* C4 amended: on an even window in() and out() return the upper-middle
\* element, sorted rank N/2; with window 4 seeded with 0, after in(1), in(2),
\* in(3), in(4) the median is 3, the element at sorted rank 2, and not the
\* element at sorted rank 1.
C4_UpperMiddle ==
    /\ (lastOp \in {"in", "out"} /\ flt.medFilterWin % 2 = 0)
           => ret = KthSmallest(flt.medFilterWin \div 2)
    /\ (lastOp \in {"in", "out"} /\ reqSize = 4 /\ nIn = 4 /\ recent = <<1, 2, 3, 4>>)
           => (ret = 3 /\ ret = KthSmallest(2) /\ ret # KthSmallest(1))

\* out() called after the four insertions of the example
C4_Witness ==
    /\ reqSize = 4
    /\ nIn = 4
    /\ recent = <<1, 2, 3, 4>>
    /\ lastOp = "out"
    /\ ret = 3

\* C5: after construction and after every in(), getMin() is the smallest and
\* getMax() the largest of the N values stored in the window.
C5_MinMax ==
    /\ getMin(flt) = Smallest
    /\ getMax(flt) = Largest
    /\ lastOp = "getMin" => ret = Smallest
    /\ lastOp = "getMax" => ret = Largest

\* getMin() called when the smallest value is neither in ring slot 0 nor in
\* the slot the constructor put at rank 0, and differs from the largest
C5_Witness ==
    /\ lastOp = "getMin"
    /\ nIn > flt.medFilterWin
    /\ flt.data[0] # Smallest
    /\ flt.sizeMap[0] # 0
    /\ Smallest < Largest

\* C6: the window holds exactly the N most recent samples of the stream
\* (the seed N times, then the inserted values); each in() overwrites exactly
\* one slot, the one written longest ago, and advances the cursor by one
\* modulo N.
C6_MostRecentN ==
    /\ [](/\ BagOfSlots(flt.medFilterWin) = BagOfSeq(recent)
          /\ \A k \in Slots : stamp[flt.oldestDataPoint] <= stamp[k]
          /\ nIn >= flt.medFilterWin =>
                \A k \in Slots \ {flt.oldestDataPoint} :
                    stamp[flt.oldestDataPoint] < stamp[k])
    /\ [][nIn' # nIn =>
            /\ \A k \in Slots \ {flt.oldestDataPoint} : flt'.data[k] = flt.data[k]
            /\ flt'.data[flt.oldestDataPoint] = recent'[flt.medFilterWin]
            /\ flt'.oldestDataPoint = (flt.oldestDataPoint + 1) % flt.medFilterWin
            /\ flt'.medFilterWin = flt.medFilterWin]_vars

\* the ring has wrapped: the cursor is back at 0 after more than N in() calls
\* and no seed is left in the window
C6_Witness ==
    /\ lastOp = "in"
    /\ nIn > flt.medFilterWin
    /\ flt.oldestDataPoint = 0
    /\ \A k \in Slots : stamp[k] > 0

\* C7: totalSum equals the sum of the N values in the window, and getMean()
\* equals that sum divided by N, rounded toward zero.
C7_SumExact ==
    /\ flt.totalSum = SumOfSlots(flt.medFilterWin)
    /\ getMean(flt) = TruncQuot(SumOfSlots(flt.medFilterWin), flt.medFilterWin)
    /\ lastOp = "getMean" =>
           ret = TruncQuot(SumOfSlots(flt.medFilterWin), flt.medFilterWin)

\* getMean() on a window with a negative sum that N does not divide, after
\* the ring has wrapped
C7_Witness ==
    /\ lastOp = "getMean"
    /\ nIn > flt.medFilterWin
    /\ flt.totalSum < 0
    /\ flt.totalSum % flt.medFilterWin # 0
    /\ ret * flt.medFilterWin > flt.totalSum

\* C8: before any in(), out(), getMin(), getMax() and getMean() return the
\* seed, every slot holds the seed and both maps are the straight run.
C8_SeedState ==
    nIn = 0 =>
        LET s == recent[1] IN
        /\ \A k \in Slots : flt.data[k] = s
        /\ \A k \in Slots : flt.locationMap[k] = k /\ flt.sizeMap[k] = k
        /\ out(flt) = s /\ getMin(flt) = s /\ getMax(flt) = s /\ getMean(flt) = s
        /\ lastOp \in {"out", "getMin", "getMax", "getMean"} => ret = s

\* getMean() called on a fresh filter with a negative seed
C8_Witness ==
    /\ nIn = 0
    /\ lastOp = "getMean"
    /\ recent[1] < 0
    /\ ret = recent[1]

\* C9: the window size is the requested size clamped into [3,255], and the
\* three arrays have exactly that length.
C9_Clamp ==
    LET n == IF reqSize < 3 THEN 3 ELSE IF reqSize > 255 THEN 255 ELSE reqSize IN
    /\ flt.medFilterWin = n
    /\ DOMAIN flt.data = 0..(n - 1)
    /\ DOMAIN flt.sizeMap = 0..(n - 1)
    /\ DOMAIN flt.locationMap = 0..(n - 1)

\* a filter requested with size 300 works on a window of 255
C9_Witness ==
    /\ reqSize = 300
    /\ flt.medFilterWin = 255
    /\ lastOp = "in"
    /\ MapsDisturbed

\* C10: out(), getMin(), getMax(), getMean() and getStdDev() change no data
\* member, and out() returns the value the most recent in() returned.
C10_ReadsArePure ==
    [][Accessors =>
          /\ flt' = flt
          /\ (lastOp' = "out" /\ nIn > 0) => ret' = lastIn]_vars

\* out() called after an in() that returned something other than the value
\* it was given
C10_Witness ==
    /\ lastOp = "out"
    /\ nIn > flt.medFilterWin
    /\ ret = lastIn
    /\ ret # recent[flt.medFilterWin]
    /\ MapsDisturbed

\* C11: an in() never changes the relative rank order of two slots other
\* than the one it overwrites; in particular equal-valued older members keep
\* their order when a value equal to them is inserted.
C11_TieStability ==
    [][nIn' # nIn =>
          \A j, k \in Slots \ {flt.oldestDataPoint} :
              (flt.locationMap[j] < flt.locationMap[k])
                  <=> (flt'.locationMap[j] < flt'.locationMap[k])]_vars

\* an in() has moved its value next to two older members equal to it
C11_Witness ==
    /\ lastOp = "in"
    /\ nIn > flt.medFilterWin
    /\ flt.locationMap[LastWritten] # LastWritten
    /\ \E j, k \in Slots \ {LastWritten} :
        /\ j # k
        /\ flt.data[j] = flt.data[LastWritten]
        /\ flt.data[k] = flt.data[LastWritten]

\* C12: getStdDev() returns floor(sqrt(v) + 0.5), where v is the sum of the
\* squared differences from getMean() divided by N - 1: the 0.5 is added
\* after the square root is taken.
C12_RoundedAfterSqrt ==
    lastOp = "getStdDev" =>
        ret = RoundedSqrt(SquaredDiffs(flt.medFilterWin, getMean(flt)),
                          flt.medFilterWin - 1)

\* C13: the value of getStdDev() differs by at most 1 from the exact sample
\* standard deviation sqrt(A / B) of the window, where
\* A = N * sum(x^2) - sum(x)^2 and B = N * (N - 1).
C13_WithinOne ==
    lastOp = "getStdDev" =>
        LET n == flt.medFilterWin
            A == n * SumOfSquares(n) - SumOfSlots(n) * SumOfSlots(n)
            B == n * (n - 1)
        IN /\ ret >= 0
           /\ ret > 1 => (ret - 1) * (ret - 1) * B <= A
           /\ A <= (ret + 1) * (ret + 1) * B

\* getStdDev() on a window whose mean is not an integer and whose deviation
\* is at least 1, after the ring has wrapped
C13_Witness ==
    /\ lastOp = "getStdDev"
    /\ nIn > flt.medFilterWin
    /\ SumOfSlots(flt.medFilterWin) % flt.medFilterWin # 0
    /\ ret >= 1
    /\ Smallest + 2 <= Largest

\* C16: if the value passed to in() is neither strictly smaller than the
\* value at the next-lower rank of the overwritten slot nor strictly larger
\* than the value at the next-higher rank, in() leaves both maps unchanged
\* and changes only data[oldestDataPoint], totalSum and oldestDataPoint.
C16_InPlace ==
    [][nIn' # nIn =>
          LET o == flt.oldestDataPoint
              r == flt.locationMap[o]
              v == recent'[flt.medFilterWin]
          IN ((r > 0 => ~(v < flt.data[flt.sizeMap[r - 1]]))
              /\ (r < flt.medFilterWin - 1 => ~(v > flt.data[flt.sizeMap[r + 1]])))
             => /\ flt'.sizeMap = flt.sizeMap
                /\ flt'.locationMap = flt.locationMap
                /\ flt'.data = [flt.data EXCEPT ![o] = v]
                /\ flt'.totalSum = flt.totalSum + v - flt.data[o]
                /\ flt'.oldestDataPoint = (o + 1) % flt.medFilterWin
                /\ flt'.medFilterWin = flt.medFilterWin
                /\ flt'.medDataPointer = flt.medDataPointer]_vars

\* an in() has replaced a value by a different one that equals its
\* lower-rank neighbour, and both maps, already disturbed, show the written
\* slot strictly inside the rank order
C16_Witness ==
    /\ lastOp = "in"
    /\ nIn > flt.medFilterWin
    /\ MapsDisturbed
    /\ flt.locationMap[LastWritten] > 0
    /\ flt.locationMap[LastWritten] < flt.medFilterWin - 1
    /\ flt.data[LastWritten] = flt.data[flt.sizeMap[flt.locationMap[LastWritten] - 1]]
    /\ flt.data[LastWritten] < flt.data[flt.sizeMap[flt.locationMap[LastWritten] + 1]]

\* C14: inside an in(), after every single shift of either loop, locationMap
\* and sizeMap are still mutual inverse permutations of 0..N-1.
C14_InverseAtEveryStep ==
    pc # "idle" =>
        /\ {flt.sizeMap[r] : r \in Slots} = Slots
        /\ {flt.locationMap[k] : k \in Slots} = Slots
        /\ \A k \in Slots : flt.sizeMap[flt.locationMap[k]] = k
        /\ \A r \in Slots : flt.locationMap[flt.sizeMap[r]] = r

\* between two shifts of a loop: one shift made, the next one due
C14_Witness ==
    \/ /\ pc = "left"
       /\ nLeft >= 1
       /\ idx > 0
       /\ flt.data[flt.oldestDataPoint] < flt.data[flt.sizeMap[idx - 1]]
    \/ /\ pc = "right"
       /\ nRight >= 1
       /\ idx < flt.medFilterWin - 1
       /\ flt.data[flt.oldestDataPoint] > flt.data[flt.sizeMap[idx + 1]]

\* C15: from the overwrite of data[oldestDataPoint] until in() returns, the
\* values read in rank order, the overwritten slot's rank left out, are
\* non-decreasing.
C15_OthersStaySorted ==
    pc # "idle" =>
        \A r, q \in Slots \ {flt.locationMap[flt.oldestDataPoint]} :
            r < q => flt.data[flt.sizeMap[r]] <= flt.data[flt.sizeMap[q]]

\* in the middle of SORT LEFT the new value is still out of order against its
\* lower-rank neighbour, with distinct values on either side of it
C15_Witness ==
    /\ pc = "left"
    /\ nLeft >= 1
    /\ idx > 0
    /\ idx < flt.medFilterWin - 1
    /\ flt.data[flt.oldestDataPoint] < flt.data[flt.sizeMap[idx - 1]]
    /\ flt.data[flt.sizeMap[idx - 1]] < flt.data[flt.sizeMap[idx + 1]]

\* C17: an in() shifts in one direction at most: after a leftward shift the
\* rightward loop makes none, and the new value is then not greater than its
\* higher-rank neighbour; every other slot's rank changes by 0 or +1 in the
\* leftward case and by 0 or -1 in the rightward case.
C17_OneDirection ==
    /\ nLeft > 0 => (nRight = 0 /\ pc # "right")
    /\ dataMoved <=> nLeft > 0
    /\ pc = "wrap" =>
        LET o == flt.oldestDataPoint
            r == flt.locationMap[o]
        IN /\ r < flt.medFilterWin - 1 => flt.data[o] <= flt.data[flt.sizeMap[r + 1]]
           /\ \A k \in Slots \ {o} :
                 LET d == flt.locationMap[k] - entry.locationMap[k] IN
                 IF nLeft > 0 THEN d \in {0, 1}
                 ELSE IF nRight > 0 THEN d \in {0, 0 - 1}
                 ELSE d = 0

\* an in() about to return after two leftward shifts that skipped SORT RIGHT
\* while the new value is strictly below its higher-rank neighbour
C17_Witness ==
    /\ pc = "wrap"
    /\ nLeft >= 2
    /\ nRight = 0
    /\ \E k \in Slots : flt.locationMap[k] = entry.locationMap[k] + 1
    /\ \E k \in Slots \ {flt.oldestDataPoint} : flt.locationMap[k] = entry.locationMap[k]

\* C18: every in() terminates, and the number of shifts it makes is the
\* absolute difference of the overwritten slot's rank before and after, at
\* most N - 1, and N - 1 only when the new value goes from one extreme rank
\* to the other.
C18_ShiftCount ==
    /\ [](pc = "wrap" =>
            LET o == flt.oldestDataPoint
                before == entry.locationMap[o]
                after == flt.locationMap[o]
            IN /\ nLeft + nRight = Abs(before - after)
               /\ nLeft + nRight <= flt.medFilterWin - 1
               /\ nLeft + nRight = flt.medFilterWin - 1 =>
                     \/ before = flt.medFilterWin - 1 /\ after = 0 /\ flt.data[o] = Smallest
                     \/ before = 0 /\ after = flt.medFilterWin - 1 /\ flt.data[o] = Largest)
    /\ (pc # "idle") ~> (pc = "idle")

\* an in() about to return after carrying its value from the top rank to
\* rank 0 of a window of 4
C18_Witness ==
    /\ pc = "wrap"
    /\ flt.medFilterWin = 4
    /\ nLeft = 3
    /\ entry.locationMap[flt.oldestDataPoint] = 3
    /\ flt.locationMap[flt.oldestDataPoint] = 0

\* the array pointers of object x
Pointers(st, x) == {st.objs[x].data, st.objs[x].sizeMap, st.objs[x].locationMap}

\* C19: copy construction and copy assignment between two distinct filters
\* give the target the source's window size, median index, cursor, sum and
\* element-for-element copies of the three arrays, also across different
\* window sizes, and leave the source unchanged; an in() on one filter then
\* changes no state of the other.
C19_DeepCopy ==
    [][/\ \A t, s \in Ids :
            (t # s /\ (CopyAssign(t, s) \/ (t = 2 /\ s = 1 /\ CopyConstruct))) =>
                /\ Usable(Store0', t)
                /\ Usable(Store0', s)
                /\ View(Store0', t) = View(Store0, s)
                /\ View(Store0', s) = View(Store0, s)
                /\ objs'[s] = objs[s]
                /\ Pointers(Store0', t) \cap Pointers(Store0', s) = {}
                /\ Cardinality(Pointers(Store0', t)) = 3
       /\ \A x, y \in Ids :
            (x # y /\ InsertObj(x)) =>
                /\ objs'[y] = objs[y]
                /\ Usable(Store0, y) =>
                      (Usable(Store0', y) /\ View(Store0', y) = View(Store0, y))]_vars

\* a filter whose window has been reordered by in() has just been copy
\* assigned to or from the other one
C19_Witness ==
    /\ lastOp = "copyAssign"
    /\ nIn >= 1
    /\ Usable(Store0, 1)
    /\ Usable(Store0, 2)
    /\ View(Store0, 1) = View(Store0, 2)
    /\ Pointers(Store0, 1) \cap Pointers(Store0, 2) = {}
    /\ \E k \in DOMAIN View(Store0, 1).locationMap : View(Store0, 1).locationMap[k] # k

\* C20: assigning a filter to itself, by copy or by move, leaves its arrays
\* allocated and its data, maps, cursor and sum as they were.
C20_SelfAssignKeepsState ==
    [][\A x \in Ids :
          (Usable(Store0, x) /\ (CopyAssign(x, x) \/ MoveAssign(x, x))) =>
              /\ Usable(Store0', x)
              /\ View(Store0', x) = View(Store0, x)]_vars

\* the statement-by-statement in() computes what in(f, value) computes
StepwiseAgrees ==
    pc = "wrap" =>
        [flt EXCEPT !.oldestDataPoint = NextCursor(@, flt.medFilterWin)]
            = in(entry, flt.data[flt.oldestDataPoint])

====
